---- MODULE Spec2Model ----
(***************************************************************************)
(* A model of landonia/simplegoblog, package blog: the posts cache that    *)
(* loadPosts rebuilds from the posts directory, the watcher goroutine of   *)
(* WatchPosts, the coordinator loop of Blog.init with the timer goroutines *)
(* it spawns, Blog.Start and the request handlers that read the cache.     *)
(***************************************************************************)
EXTENDS Integers, Sequences, FiniteSets, TLC

\* time.Second * 10: the delay of the timer of every timer goroutine, in seconds.
Delay == 10
\* The seconds by which one step of the clock advances the time.
Step == 5

\* The number of filesystem notifications the environment raises.
MaxEvents == 2
\* The number of file names of the posts directory.
MaxFiles == 4

Names == 1..MaxFiles
Gids == 1..MaxEvents
StartProc == 0
Procs == {StartProc} \cup Gids

(***************************************************************************)
(* Data: titles are sequences of characters, a file of the directory is    *)
(* absent, a file without the .json extension ("other"), a .json file that *)
(* cannot be opened, read or parsed ("bad"), or a .json file that parses   *)
(* to a Post ("post").                                                     *)
(***************************************************************************)
Titles == {<<"a">>, <<"A", " ">>, <<"a", "-">>}
\* The Created timestamps of the posts on disk.
Times == {1, 2}

NoFile == [kind |-> "absent", Title |-> <<>>, Created |-> 0]
OtherFile == [kind |-> "other", Title |-> <<>>, Created |-> 0]
BadFile == [kind |-> "bad", Title |-> <<>>, Created |-> 0]
PostFiles == [kind : {"post"}, Title : Titles, Created : Times]
Contents == {NoFile, OtherFile, BadFile} \cup PostFiles

\* The nil *Post.
Nil == [FileName |-> 0, Created |-> 0, Title |-> <<>>]

\* The empty map, make(map[string]*Post).
EmptyMap == [k \in {} |-> Nil]

VARIABLES
    dir,        \* the posts directory: file name -> content
    fsq,        \* watcher.Events: the notifications not yet taken by the watcher
    notesLeft,  \* notifications the environment may still raise
    nWrites,    \* notifications raised so far whose Op includes Write
    wpc,        \* the goroutine of WatchPosts: "recv" or "send" (blocked on updates <-)
    cpc,        \* the coordinator loop of init: "recv" (at <-updates) or "cancel"
    nSpawn,     \* the number of timer goroutines spawned so far
    pc,         \* Start (process 0) and the timer goroutines: where each is
    remaining,  \* timer goroutine -> ticks until its timer's channel is ready
    mutex,      \* the package-level mutex: TRUE when locked
    fileInfos,  \* loadPosts local, per process: the names ReadDir returned
    idx,        \* loadPosts local, per process: position of the range loop
    postsno,    \* loadPosts local, per process
    posts,      \* blog.posts
    postMap,    \* blog.postMap
    lookup,     \* the last viewPostHandler request: key, result, and whether the key
                \* was in the snapshot before the load and is in the one it builds
    oldMap,     \* blog.postMap as the load in progress found it
    page,       \* the PageContent.Posts of the last home or posts page rendered
    configured, \* Configuration.NoOfRecentPosts as given to New
    NoOfRecentPosts, \* blog.configuration.NoOfRecentPosts
    sinceEvent, \* ticks since the coordinator last received an Update (capped at Delay)
    burstOK,    \* every Update was received less than Delay after the one before
    inFlightOK  \* every Update was received while a loadPosts body was running

vars == <<dir, fsq, notesLeft, nWrites, wpc, cpc, nSpawn, pc, remaining, mutex,
          fileInfos, idx, postsno, posts, postMap, lookup, oldMap,
          page, configured, NoOfRecentPosts, sinceEvent, burstOK, inFlightOK>>

envVars == <<dir, fsq, notesLeft, nWrites>>
timeVars == <<sinceEvent, burstOK, inFlightOK>>
loadVars == <<fileInfos, idx, postsno>>
cacheVars == <<posts, postMap, oldMap>>
viewVars == <<lookup, page, configured, NoOfRecentPosts>>

(***************************************************************************)
(* Post.SafeTitle, Posts.Less and the pure parts of loadPosts.             *)
(***************************************************************************)
ToLower(c) == IF c = "A" THEN "a" ELSE IF c = "B" THEN "b" ELSE c

\* strings.ToLower(strings.Replace(Title, " ", "-", -1))
SafeTitle(post) ==
    [i \in 1..Len(post.Title) |-> ToLower(IF post.Title[i] = " " THEN "-" ELSE post.Title[i])]

\* blog.postMap[key], nil when the key is absent
MapGet(map, key) == IF key \in DOMAIN map THEN map[key] ELSE Nil

\* An if in place of the for: the marker is appended once.
DisambiguateOnce(map, post) ==
    IF MapGet(map, SafeTitle(post)) # Nil
    THEN [post EXCEPT !.Title = Append(post.Title, "-")]
    ELSE post

\* A do-while in place of the for: the marker is appended before the first test.
RECURSIVE DisambiguateMarked(_, _)
DisambiguateMarked(map, post) ==
    LET marked == [post EXCEPT !.Title = Append(post.Title, "-")]
    IN  IF MapGet(map, SafeTitle(marked)) # Nil
        THEN DisambiguateMarked(map, marked)
        ELSE marked

\* for blog.postMap[post.SafeTitle()] != nil { post.Title = post.Title + "-" }
RECURSIVE Disambiguate(_, _)
Disambiguate(map, post) ==
    IF MapGet(map, SafeTitle(post)) # Nil
    THEN Disambiguate(map, [post EXCEPT !.Title = Append(post.Title, "-")])
    ELSE post

\* A loop body that goes on whatever json.Unmarshal returned.
ParsesAnyJson(c) == c.kind \in {"post", "bad"}

\* Whether the body of the range loop reaches json.Unmarshal without an error.
Parses(c) == c.kind = "post"

\* A loop body that puts the post into the map before it sets its FileName.
InsertPostUnnamed(map, name, c) ==
    IF Parses(c)
    THEN LET post == Disambiguate(map, [FileName |-> 0, Created |-> c.Created,
                                        Title |-> c.Title])
             key == SafeTitle(post)
         IN  [k \in DOMAIN map \cup {key} |-> IF k = key THEN post ELSE map[k]]
    ELSE map

\* One iteration of the range loop over fileInfos: the map afterwards.
InsertPost(map, name, c) ==
    IF Parses(c)
    THEN LET post == [Disambiguate(map, [FileName |-> 0, Created |-> c.Created,
                                         Title |-> c.Title])
                      EXCEPT !.FileName = name]
             key == SafeTitle(post)
         IN  [k \in DOMAIN map \cup {key} |-> IF k = key THEN post ELSE map[k]]
    ELSE map

\* The rest of the range loop, from position i, over the directory d.
RECURSIVE LoadRest(_, _, _, _)
LoadRest(map, infos, i, d) ==
    IF i > Len(infos) THEN map
    ELSE LoadRest(InsertPost(map, infos[i], d[infos[i]]), infos, i + 1, d)

\* ioutil.ReadDir: the names present, sorted by name.
RECURSIVE ReadDirFrom(_, _)
ReadDirFrom(d, n) ==
    IF n > MaxFiles THEN <<>>
    ELSE IF d[n].kind = "absent" THEN ReadDirFrom(d, n + 1)
    ELSE <<n>> \o ReadDirFrom(d, n + 1)
ReadDir(d) == ReadDirFrom(d, 1)

\* A Less that compares with Before.
LessBefore(a, b) == a.Created < b.Created

\* posts[i].Created.After(posts[j].Created)
Less(a, b) == a.Created > b.Created

Swap(s, i, j) == [s EXCEPT ![i] = s[j], ![j] = s[i]]

\* sort.Sort on fewer than 12 elements is an insertion sort with Less and Swap.
RECURSIVE InsertLeft(_, _)
InsertLeft(s, j) ==
    IF j > 1 /\ Less(s[j], s[j - 1]) THEN InsertLeft(Swap(s, j, j - 1), j - 1) ELSE s

RECURSIVE SortFrom(_, _)
SortFrom(s, i) == IF i > Len(s) THEN s ELSE SortFrom(InsertLeft(s, i), i + 1)

SortPosts(s) == SortFrom(s, 2)

\* The orders in which range may enumerate the keys of a map.
RangeOrders(map) ==
    LET n == Cardinality(DOMAIN map)
    IN  {o \in [1..n -> DOMAIN map] : \A i, j \in 1..n : i # j => o[i] # o[j]}

\* A copy that appends the posts to the slice made with length postsno.
NewPostsAppended(map, order, no) ==
    [i \in 1..no |-> Nil] \o [i \in 1..Len(order) |-> map[order[i]]]

\* newPosts := make([]*Post, postsno), filled in range order.
NewPosts(map, order, no) ==
    [i \in 1..no |-> IF i <= Len(order) THEN map[order[i]] ELSE Nil]

(***************************************************************************)
(* The initial state: New has returned, Start has not been called.         *)
(***************************************************************************)
InitDirs == [Names -> Contents]

\* The NoOfRecentPosts a Configuration is given to New with.
Configured == {0, 1}

\* if blog.configuration.NoOfRecentPosts == 0 { blog.configuration.NoOfRecentPosts = 3 }
RecentPostsDefault(n) == IF n = 0 THEN 3 ELSE n

InitCommon ==
    /\ fsq = <<>>
    /\ wpc = "recv"
    /\ cpc = "recv"
    /\ nSpawn = 0
    /\ pc = [p \in Procs |-> IF p = StartProc THEN "new" ELSE "none"]
    /\ remaining = [g \in Gids |-> 0]
    /\ mutex = FALSE
    /\ fileInfos = [p \in Procs |-> <<>>]
    /\ idx = [p \in Procs |-> 0]
    /\ postsno = [p \in Procs |-> 0]
    /\ posts = <<>>
    /\ postMap = EmptyMap
    /\ lookup = [key |-> <<>>, post |-> Nil, stable |-> FALSE]
    /\ oldMap = EmptyMap
    /\ page = [handler |-> "none", Posts |-> <<>>]
    /\ nWrites = 0
    /\ sinceEvent = Delay
    /\ burstOK = TRUE
    /\ inFlightOK = TRUE


(***************************************************************************)
(* The environment: a write to a file of the posts directory, or a change  *)
(* of its metadata, and the notification fsnotify raises for it.           *)
(***************************************************************************)
Ops == {{"Write"}, {"Chmod"}}

\* The contents an editor writes while the blog runs.
EditContents ==
    {NoFile, [kind |-> "post", Title |-> <<"a">>, Created |-> 1]}
EditNames == {1}

FsNotify(op, n, c) ==
    /\ notesLeft > 0
    /\ notesLeft' = notesLeft - 1
    /\ dir' = IF "Write" \in op THEN [dir EXCEPT ![n] = c] ELSE dir
    /\ fsq' = Append(fsq, op)
    /\ nWrites' = IF "Write" \in op THEN nWrites + 1 ELSE nWrites
    /\ UNCHANGED <<wpc, cpc, nSpawn, pc, remaining, mutex, loadVars, cacheVars,
                   viewVars, timeVars>>

(***************************************************************************)
(* WatchPosts: the goroutine that turns Write notifications into Update    *)
(* events on the unbuffered channel updates.                               *)
(***************************************************************************)
\* A test that lets every notification through.
IsAnyOp(op) == op # {}

\* event.Op&fsnotify.Write == fsnotify.Write
IsWrite(op) == "Write" \in op

WatcherRecv ==
    /\ wpc = "recv"
    /\ fsq # <<>>
    /\ fsq' = Tail(fsq)
    /\ wpc' = IF IsWrite(Head(fsq)) THEN "send" ELSE "recv"
    /\ UNCHANGED <<dir, notesLeft, nWrites, cpc, nSpawn, pc, remaining, mutex, loadVars,
                   cacheVars, viewVars, timeVars>>

(***************************************************************************)
(* Blog.init: the coordinator loop and the timer goroutines.               *)
(***************************************************************************)
InFlight == \E p \in Procs : pc[p] = "body"

\* case event := <-updates: the rendezvous with the watcher's send.
CoordRecv ==
    /\ cpc = "recv"
    /\ wpc = "send"
    /\ wpc' = "recv"
    /\ cpc' = "cancel"
    /\ sinceEvent' = 0
    /\ burstOK' = (burstOK /\ (nSpawn = 0 \/ sinceEvent < Delay))
    /\ inFlightOK' = (inFlightOK /\ InFlight)
    /\ UNCHANGED <<envVars, nSpawn, pc, remaining, mutex, loadVars, cacheVars, viewVars>>

\* The goroutines blocked in their select, ready to receive from exit.
Receivers == {g \in Gids : pc[g] = "waiting"}

\* select { case timerExit <- false: default: }, then go func(blog, timerExit).
CoordCancel ==
    /\ cpc = "cancel"
    /\ nSpawn < MaxEvents
    /\ cpc' = "recv"
    /\ nSpawn' = nSpawn + 1
    /\ \/ /\ Receivers = {}
          /\ pc' = [pc EXCEPT ![nSpawn + 1] = "spawned"]
       \/ \E g \in Receivers :
              pc' = [pc EXCEPT ![g] = "cancelled", ![nSpawn + 1] = "spawned"]
    /\ UNCHANGED <<envVars, wpc, remaining, mutex, loadVars, cacheVars, viewVars,
                   timeVars>>

\* The timer goroutine reaches its select: time.NewTimer(time.Second * 10).
GoStart(g) ==
    /\ pc[g] = "spawned"
    /\ pc' = [pc EXCEPT ![g] = "waiting"]
    /\ remaining' = [remaining EXCEPT ![g] = Delay]
    /\ UNCHANGED <<envVars, wpc, cpc, nSpawn, mutex, loadVars, cacheVars, viewVars,
                   timeVars>>

\* A select whose timer case drops out of the block.
TimerFireDrops(g) ==
    /\ pc[g] = "waiting"
    /\ remaining[g] = 0
    /\ pc' = [pc EXCEPT ![g] = "cancelled"]
    /\ UNCHANGED <<envVars, wpc, cpc, nSpawn, remaining, mutex, loadVars, cacheVars,
                   viewVars, timeVars>>

\* case <-timer.C: the goroutine goes on to call blog.loadPosts().
TimerFire(g) ==
    /\ pc[g] = "waiting"
    /\ remaining[g] = 0
    /\ pc' = [pc EXCEPT ![g] = "call"]
    /\ UNCHANGED <<envVars, wpc, cpc, nSpawn, remaining, mutex, loadVars, cacheVars,
                   viewVars, timeVars>>

Min(a, b) == IF a < b THEN a ELSE b
Max(a, b) == IF a > b THEN a ELSE b

\* Step seconds pass: every running timer is that much closer to its end.
Tick ==
    /\ \/ sinceEvent < Delay
       \/ \E g \in Gids : pc[g] = "waiting" /\ remaining[g] > 0
    /\ sinceEvent' = Min(sinceEvent + Step, Delay)
    /\ remaining' = [g \in Gids |->
                        IF pc[g] = "waiting" THEN Max(remaining[g] - Step, 0)
                        ELSE remaining[g]]
    /\ UNCHANGED <<envVars, wpc, cpc, nSpawn, pc, mutex, loadVars, cacheVars, viewVars,
                   burstOK, inFlightOK>>

(***************************************************************************)
(* Blog.loadPosts, called by process p (Start or a timer goroutine).       *)
(***************************************************************************)
\* A Lock that does not wait for the holder.
CanLockAlways == TRUE

\* mutex.Lock() returns only when the mutex is free.
CanLock == ~mutex

\* Where loadPosts returns to: Start looks at the error, a timer goroutine ends
\* ("done" after a load that returned nil, "failed" after one that returned an error).
Return(p, ok) ==
    IF p = StartProc THEN (IF ok THEN "ret_ok" ELSE "ret_err")
    ELSE (IF ok THEN "done" ELSE "failed")

\* A loadPosts that makes the new map before it reads the directory.
LoadBeginResetFirst(p, ok) ==
    /\ pc[p] = "call"
    /\ CanLock
    /\ postMap' = EmptyMap
    /\ IF ok
       THEN /\ mutex' = TRUE
            /\ pc' = [pc EXCEPT ![p] = "body"]
            /\ fileInfos' = [fileInfos EXCEPT ![p] = ReadDir(dir)]
            /\ idx' = [idx EXCEPT ![p] = 1]
            /\ postsno' = [postsno EXCEPT ![p] = 0]
            /\ oldMap' = postMap
            /\ UNCHANGED posts
       ELSE /\ pc' = [pc EXCEPT ![p] = Return(p, FALSE)]
            /\ UNCHANGED <<mutex, loadVars, posts, oldMap>>
    /\ UNCHANGED <<envVars, wpc, cpc, nSpawn, remaining, viewVars, timeVars>>

\* A loadPosts that goes on with the map it finds.
LoadBeginKeepsMap(p, ok) ==
    /\ pc[p] = "call"
    /\ CanLock
    /\ IF ok
       THEN /\ mutex' = TRUE
            /\ pc' = [pc EXCEPT ![p] = "body"]
            /\ fileInfos' = [fileInfos EXCEPT ![p] = ReadDir(dir)]
            /\ idx' = [idx EXCEPT ![p] = 1]
            /\ postsno' = [postsno EXCEPT ![p] = 0]
            /\ oldMap' = postMap
            /\ UNCHANGED <<posts, postMap>>
       ELSE /\ pc' = [pc EXCEPT ![p] = Return(p, FALSE)]
            /\ UNCHANGED <<mutex, loadVars, cacheVars>>
    /\ UNCHANGED <<envVars, wpc, cpc, nSpawn, remaining, viewVars, timeVars>>

\* mutex.Lock(), ioutil.ReadDir, and on success blog.postMap = make(...).
LoadBegin(p, ok) ==
    /\ pc[p] = "call"
    /\ CanLock
    /\ IF ok
       THEN /\ mutex' = TRUE
            /\ pc' = [pc EXCEPT ![p] = "body"]
            /\ fileInfos' = [fileInfos EXCEPT ![p] = ReadDir(dir)]
            /\ idx' = [idx EXCEPT ![p] = 1]
            /\ postsno' = [postsno EXCEPT ![p] = 0]
            /\ oldMap' = postMap
            /\ postMap' = EmptyMap
            /\ UNCHANGED posts
       ELSE /\ pc' = [pc EXCEPT ![p] = Return(p, FALSE)]
            /\ UNCHANGED <<mutex, loadVars, cacheVars>>
    /\ UNCHANGED <<envVars, wpc, cpc, nSpawn, remaining, viewVars, timeVars>>

\* One iteration of for _, fi := range fileInfos.
LoadFile(p) ==
    /\ pc[p] = "body"
    /\ idx[p] <= Len(fileInfos[p])
    /\ LET name == fileInfos[p][idx[p]]
       IN  /\ postMap' = InsertPost(postMap, name, dir[name])
           /\ postsno' = [postsno EXCEPT ![p] = IF Parses(dir[name]) THEN @ + 1 ELSE @]
    /\ idx' = [idx EXCEPT ![p] = @ + 1]
    /\ UNCHANGED <<envVars, wpc, cpc, nSpawn, pc, remaining, mutex, fileInfos, posts,
                   oldMap, viewVars, timeVars>>

\* The copy of the map into newPosts, sort.Sort, blog.posts = newPosts, Unlock.
LoadFinish(p) ==
    /\ pc[p] = "body"
    /\ idx[p] > Len(fileInfos[p])
    /\ \E order \in RangeOrders(postMap) :
           posts' = SortPosts(NewPosts(postMap, order, postsno[p]))
    /\ mutex' = FALSE
    /\ pc' = [pc EXCEPT ![p] = Return(p, TRUE)]
    /\ fileInfos' = [fileInfos EXCEPT ![p] = <<>>]
    /\ idx' = [idx EXCEPT ![p] = 0]
    /\ postsno' = [postsno EXCEPT ![p] = 0]
    /\ oldMap' = EmptyMap
    /\ UNCHANGED <<envVars, wpc, cpc, nSpawn, remaining, postMap, viewVars, timeVars>>

(***************************************************************************)
(* Blog.Start and the request handlers.                                    *)
(***************************************************************************)
StartCall ==
    /\ pc[StartProc] = "new"
    /\ pc' = [pc EXCEPT ![StartProc] = "call"]
    /\ UNCHANGED <<envVars, wpc, cpc, nSpawn, remaining, mutex, loadVars, cacheVars,
                   viewVars, timeVars>>

\* A Start that registers the handlers whatever loadPosts returned.
StartServeAnyway ==
    /\ pc[StartProc] \in {"ret_ok", "ret_err"}
    /\ pc' = [pc EXCEPT ![StartProc] = "serving"]
    /\ UNCHANGED <<envVars, wpc, cpc, nSpawn, remaining, mutex, loadVars, cacheVars,
                   viewVars, timeVars>>

\* err == nil: the handlers are registered and the server listens.
StartServe ==
    /\ pc[StartProc] = "ret_ok"
    /\ pc' = [pc EXCEPT ![StartProc] = "serving"]
    /\ UNCHANGED <<envVars, wpc, cpc, nSpawn, remaining, mutex, loadVars, cacheVars,
                   viewVars, timeVars>>

\* err != nil: return err.
StartFail ==
    /\ pc[StartProc] = "ret_err"
    /\ pc' = [pc EXCEPT ![StartProc] = "failed"]
    /\ UNCHANGED <<envVars, wpc, cpc, nSpawn, remaining, mutex, loadVars, cacheVars,
                   viewVars, timeVars>>

\* The keys requests ask for.
LookupKeys == {<<"a">>}

\* The snapshot a load in progress replaces, and the one it is building.
OldSnapshot == IF InFlight THEN oldMap ELSE postMap
NewSnapshot ==
    IF InFlight
    THEN LET p == CHOOSE q \in Procs : pc[q] = "body"
         IN  LoadRest(postMap, fileInfos[p], idx[p], dir)
    ELSE postMap

\* A home page that sends all the posts.
viewHomeHandlerAll ==
    /\ pc[StartProc] = "serving"
    /\ page' = [handler |-> "home", Posts |-> posts]
    /\ UNCHANGED <<envVars, wpc, cpc, nSpawn, pc, remaining, mutex, loadVars,
                   cacheVars, lookup, configured, NoOfRecentPosts, timeVars>>

\* The request for "/": recentPosts := blog.posts[:len(blog.posts)], cut to its
\* first NoOfRecentPosts when it has more.
viewHomeHandler ==
    /\ pc[StartProc] = "serving"
    /\ LET recentPosts == SubSeq(posts, 1, Len(posts))
       IN  page' = [handler |-> "home",
                    Posts |-> IF Len(recentPosts) > NoOfRecentPosts
                              THEN SubSeq(recentPosts, 1, NoOfRecentPosts)
                              ELSE recentPosts]
    /\ UNCHANGED <<envVars, wpc, cpc, nSpawn, pc, remaining, mutex, loadVars,
                   cacheVars, lookup, configured, NoOfRecentPosts, timeVars>>

\* A posts page that takes the mutex of loadPosts for its read.
viewPostsHandlerLocked ==
    /\ pc[StartProc] = "serving"
    /\ CanLock
    /\ page' = [handler |-> "posts", Posts |-> posts]
    /\ UNCHANGED <<envVars, wpc, cpc, nSpawn, pc, remaining, mutex, loadVars,
                   cacheVars, lookup, configured, NoOfRecentPosts, timeVars>>

\* The request for "/posts": just send all the posts.
viewPostsHandler ==
    /\ pc[StartProc] = "serving"
    /\ page' = [handler |-> "posts", Posts |-> posts]
    /\ UNCHANGED <<envVars, wpc, cpc, nSpawn, pc, remaining, mutex, loadVars,
                   cacheVars, lookup, configured, NoOfRecentPosts, timeVars>>

\* A handler that looks up the whole path, "/posts/" included.
viewPostHandlerWholePath(k) ==
    /\ pc[StartProc] = "serving"
    /\ lookup' = [key |-> k, post |-> MapGet(postMap, <<"/", "p", "o", "s", "t", "s", "/">> \o k),
                  stable |-> k \in DOMAIN OldSnapshot /\ k \in DOMAIN NewSnapshot]
    /\ UNCHANGED <<envVars, wpc, cpc, nSpawn, pc, remaining, mutex, loadVars,
                   cacheVars, page, configured, NoOfRecentPosts, timeVars>>

\* post := blog.postMap[postName]; nil redirects to /notfound.
viewPostHandler(k) ==
    /\ pc[StartProc] = "serving"
    /\ lookup' = [key |-> k, post |-> MapGet(postMap, k),
                  stable |-> k \in DOMAIN OldSnapshot /\ k \in DOMAIN NewSnapshot]
    /\ UNCHANGED <<envVars, wpc, cpc, nSpawn, pc, remaining, mutex, loadVars,
                   cacheVars, page, configured, NoOfRecentPosts, timeVars>>

(***************************************************************************)
(* The blog with its watcher, coordinator, timers, loads and readers.      *)
(***************************************************************************)
Init ==
    /\ InitCommon
    /\ dir \in {d \in [Names -> EditContents] : \A n \in Names \ EditNames : d[n] = NoFile}
    /\ notesLeft = MaxEvents
    /\ configured = 0
    /\ NoOfRecentPosts = RecentPostsDefault(configured)

Next ==
    \/ \E op \in Ops, n \in EditNames, c \in EditContents : FsNotify(op, n, c)
    \/ WatcherRecv
    \/ CoordRecv
    \/ CoordCancel
    \/ \E g \in Gids : GoStart(g)
    \/ \E g \in Gids : TimerFire(g)
    \/ Tick
    \/ \E p \in Procs, ok \in BOOLEAN : LoadBegin(p, ok)
    \/ \E p \in Procs : LoadFile(p)
    \/ \E p \in Procs : LoadFinish(p)
    \/ StartCall
    \/ StartServe
    \/ StartFail
    \/ \E k \in LookupKeys : viewPostHandler(k)

Spec == Init /\ [][Next]_vars

(***************************************************************************)
(* The startup load alone, over every directory: Start calls loadPosts     *)
(* while nothing changes the directory and no notification is raised.      *)
(***************************************************************************)
LoadInit ==
    /\ InitCommon
    /\ dir \in InitDirs
    /\ notesLeft = 0
    /\ configured = 0
    /\ NoOfRecentPosts = RecentPostsDefault(configured)

LoadNext ==
    \/ StartCall
    \/ \E ok \in BOOLEAN : LoadBegin(StartProc, ok)
    \/ LoadFile(StartProc)
    \/ LoadFinish(StartProc)
    \/ StartServe
    \/ StartFail

LoadSpec == LoadInit /\ [][LoadNext]_vars

(***************************************************************************)
(* The startup load over the directories where only titles differ: every   *)
(* file is absent, fails to parse, or is a post of one creation time.      *)
(***************************************************************************)
TitleContents == {NoFile, BadFile} \cup [kind : {"post"}, Title : Titles, Created : {1}]

TitleInit ==
    /\ InitCommon
    /\ dir \in [Names -> TitleContents]
    /\ notesLeft = 0
    /\ configured = 0
    /\ NoOfRecentPosts = RecentPostsDefault(configured)

TitleSpec == TitleInit /\ [][LoadNext]_vars

(***************************************************************************)
(* Reloads while the posts directory changes: a file that is written and   *)
(* removed while the blog runs, next to a file that holds a post or has no *)
(* .json extension, and the posts page as the only reader.                 *)
(***************************************************************************)
ReloadNames == {1}
ReloadEdits == {NoFile, [kind |-> "post", Title |-> <<"a">>, Created |-> 1]}
\* The file next to the one that is rewritten.
ReloadOthers ==
    {OtherFile} \cup [kind : {"post"}, Title : {<<"a">>}, Created : Times]

ReloadInit ==
    /\ InitCommon
    /\ dir \in {d \in InitDirs :
                   /\ d[1] \in ReloadEdits
                   /\ d[2] \in ReloadOthers
                   /\ \A n \in Names \ {1, 2} : d[n] = NoFile}
    /\ notesLeft = MaxEvents
    /\ configured = 0
    /\ NoOfRecentPosts = RecentPostsDefault(configured)

ReloadNext ==
    \/ \E n \in ReloadNames, c \in ReloadEdits : FsNotify({"Write"}, n, c)
    \/ WatcherRecv
    \/ CoordRecv
    \/ CoordCancel
    \/ \E g \in Gids : GoStart(g)
    \/ \E g \in Gids : TimerFire(g)
    \/ Tick
    \/ \E p \in Procs, ok \in BOOLEAN : LoadBegin(p, ok)
    \/ \E p \in Procs : LoadFile(p)
    \/ \E p \in Procs : LoadFinish(p)
    \/ StartCall
    \/ StartServe
    \/ StartFail
    \/ viewPostsHandler

ReloadSpec == ReloadInit /\ [][ReloadNext]_vars

(***************************************************************************)
(* The blog serving its pages: every handler and every NoOfRecentPosts of  *)
(* Configured, over two files whose rewriting leaves their content as it   *)
(* is, so that loads run while requests are served.                        *)
(***************************************************************************)
ServeNames == {1, 2}
ServeFirst == {[kind |-> "post", Title |-> <<"A", " ">>, Created |-> 1]}
ServeSecond == {NoFile} \cup [kind : {"post"}, Title : {<<"a">>}, Created : Times]
ServeKeys == {<<"a">>, <<"a", "-">>}

ServeInit ==
    /\ InitCommon
    /\ dir \in {d \in InitDirs :
                   /\ d[1] \in ServeFirst
                   /\ d[2] \in ServeSecond
                   /\ \A n \in Names \ ServeNames : d[n] = NoFile}
    /\ notesLeft = MaxEvents
    /\ configured \in Configured
    /\ NoOfRecentPosts = RecentPostsDefault(configured)

ServeNext ==
    \/ \E n \in ServeNames : FsNotify({"Write"}, n, dir[n])
    \/ WatcherRecv
    \/ CoordRecv
    \/ CoordCancel
    \/ \E g \in Gids : GoStart(g)
    \/ \E g \in Gids : TimerFire(g)
    \/ Tick
    \/ \E p \in Procs, ok \in BOOLEAN : LoadBegin(p, ok)
    \/ \E p \in Procs : LoadFile(p)
    \/ \E p \in Procs : LoadFinish(p)
    \/ StartCall
    \/ StartServe
    \/ StartFail
    \/ viewHomeHandler
    \/ viewPostsHandler
    \/ \E k \in ServeKeys : viewPostHandler(k)

ServeSpec == ServeInit /\ [][ServeNext]_vars


\* The scheduler runs the watcher, the coordinator and every timer goroutine that
\* can take a step, and time passes.
Fairness ==
    /\ WF_vars(WatcherRecv)
    /\ WF_vars(CoordRecv)
    /\ WF_vars(CoordCancel)
    /\ WF_vars(Tick)
    /\ \A g \in Gids : WF_vars(GoStart(g)) /\ WF_vars(TimerFire(g))

FairSpec == Init /\ [][Next]_vars /\ Fairness

(***************************************************************************)
(* Notions the properties share.                                           *)
(***************************************************************************)
\* The timer of goroutine g ended and g went on to call loadPosts.
Dispatched(g) == pc[g] \in {"call", "body", "done", "failed"}
NumDispatched == Cardinality({g \in Gids : Dispatched(g)})

\* Nothing is on its way: no notification, no event, no timer goroutine pending.
Quiet ==
    /\ fsq = <<>>
    /\ wpc = "recv"
    /\ cpc = "recv"
    /\ \A g \in Gids : pc[g] \notin {"spawned", "waiting"}

\* The coordinator received an Update after the one goroutine g was spawned for.
LaterEvent(g) == nSpawn > g \/ (nSpawn = g /\ cpc = "cancel")

\* blog.posts holds exactly the posts of blog.postMap, each once.
SamePosts(ps, map) ==
    /\ Len(ps) = Cardinality(DOMAIN map)
    /\ {ps[i] : i \in 1..Len(ps)} = {map[k] : k \in DOMAIN map}

\* What a load of directory d builds from an empty map.
LoadAll(d) == LoadRest(EmptyMap, ReadDir(d), 1, d)

(***************************************************************************)
(* The properties.                                                         *)
(***************************************************************************)

\* C1 (debounce coalescing): once a burst of Updates, each received less than Delay
\* after the one before, has been handled and no timer goroutine is pending, the
\* timers have triggered exactly one loadPosts.
C1_OneLoadPerBurst ==
    (Quiet /\ nSpawn >= 1 /\ burstOK) => NumDispatched = 1

\* C2 (quiet window): a timer goroutine goes on to loadPosts only when at least Delay
\* has passed since the coordinator last received an Update.
C2_QuietWindow ==
    [][\A g \in Gids :
          (pc[g] = "waiting" /\ pc'[g] = "call") => sinceEvent >= Delay]_vars

\* C3 (atomic publish): a lookup of a key that is in the snapshot from before the
\* load and in the snapshot the load builds is never answered not-found.
C3_AtomicPublish == lookup.stable => lookup.post # Nil

\* C5 (failed load keeps the snapshot): a loadPosts whose ReadDir fails leaves posts
\* and postMap as they were, and posts and postMap change only in a step of a load
\* that has read the directory.
C5_FailedLoadKeeps ==
    [][/\ \A p \in Procs :
              (pc[p] = "call" /\ pc'[p] \in {"ret_err", "failed"})
                  => (posts' = posts /\ postMap' = postMap)
       /\ (posts' # posts \/ postMap' # postMap)
              => \E p \in Procs : pc'[p] = "body" \/ pc[p] = "body"]_vars

\* A timer goroutine's load failed while the cache held posts.
C5_Witness ==
    \E g \in Gids : pc[g] = "failed" /\ posts # <<>> /\ DOMAIN postMap # {}

\* C6 (sequential loads): at most one process is in the body of loadPosts.
C6_SequentialLoads == Cardinality({p \in Procs : pc[p] = "body"}) <= 1

\* One load is in its body while another caller waits for the mutex.
C6_Witness ==
    \E p, q \in Procs : p # q /\ pc[p] = "body" /\ pc[q] = "call" /\ mutex

\* C7 (burst during a load): when every Update of a burst was received while a
\* loadPosts was running, the timers trigger exactly one further loadPosts.
C7_BurstInFlight ==
    (Quiet /\ nSpawn >= 1 /\ burstOK /\ inFlightOK) => NumDispatched = 1

\* C4 (no dropped change): the goroutine spawned for an Update goes on to loadPosts
\* unless a later Update is received, it is never cancelled without a later Update,
\* and when the load for the last Update has returned nil, no notification is on
\* its way and no other load is running, the cache is what a load of the directory
\* builds.
C4_LastLoaded(g) ==
    /\ pc[g] = "done"
    /\ ~LaterEvent(g)
    /\ nSpawn = g
    /\ fsq = <<>>
    /\ wpc = "recv"
    /\ ~InFlight

C4_NoDroppedChange ==
    /\ \A g \in Gids : (pc[g] = "spawned") ~> (Dispatched(g) \/ LaterEvent(g))
    /\ [](\A g \in Gids : pc[g] = "cancelled" => nSpawn > g)
    /\ [](\A g \in Gids :
             C4_LastLoaded(g) => (postMap = LoadAll(dir) /\ SamePosts(posts, postMap)))

\* The load for the last Update of a burst of two has returned and the cache has a post.
C4_Witness ==
    \E g \in Gids : C4_LastLoaded(g) /\ g >= 2 /\ burstOK /\ posts # <<>>


(***************************************************************************)
(* The properties of the snapshot a load publishes (LoadSpec).             *)
(***************************************************************************)
\* Start's loadPosts has returned nil.
Loaded == pc[StartProc] \in {"ret_ok", "serving"}

\* The files of the directory that parse, and the key of a file's title as on disk.
Parsed == {n \in Names : dir[n].kind = "post"}
DiskKey(n) == SafeTitle(dir[n])

\* Where the post made from file n is in the snapshot.
KeysOf(n) == {k \in DOMAIN postMap : postMap[k].FileName = n}
PlacesOf(n) == {i \in 1..Len(posts) : posts[i].FileName = n}

\* Keys are pairwise distinct and every parsed file has exactly one item.
C8_DistinctAndComplete ==
    /\ \A i, j \in 1..Len(posts) : i # j => SafeTitle(posts[i]) # SafeTitle(posts[j])
    /\ \A k \in DOMAIN postMap : SafeTitle(postMap[k]) = k
    /\ \A n \in Parsed : Cardinality(KeysOf(n)) = 1 /\ Cardinality(PlacesOf(n)) = 1

\* Files m and n, m processed first, have titles that normalize to the same key.
Collide(m, n) == m \in Parsed /\ n \in Parsed /\ m < n /\ DiskKey(m) = DiskKey(n)

\* No file processed before m has a title that normalizes to the key of m's title.
FirstOfKey(m) == ~\E e \in Parsed : e < m /\ DiskKey(e) = DiskKey(m)

\* A file processed before m holds the key of m's title as on disk.
KeyTaken(m) == \E e \in Parsed : e < m /\ KeysOf(e) = {DiskKey(m)}

\* C8 as stated (collision resolution): after a load the keys are pairwise distinct,
\* no parsed file is lost, and of two files whose titles normalize to the same key
\* both are in the snapshot under different keys and the one processed first of
\* all files with that key has the unmodified key.
C8_FirstKeepsKey ==
    Loaded =>
        /\ C8_DistinctAndComplete
        /\ \A m, n \in Names :
               Collide(m, n) =>
                   /\ KeysOf(n) # KeysOf(m)
                   /\ FirstOfKey(m) => KeysOf(m) = {DiskKey(m)}

\* C8 as amended: the same, but a file has the unmodified key exactly when no file
\* processed before it holds that key: the first of the files with a key has it
\* unless an earlier file was disambiguated to that key.
C8_FirstKeepsFreeKey ==
    Loaded =>
        /\ C8_DistinctAndComplete
        /\ \A m, n \in Names :
               Collide(m, n) =>
                   /\ KeysOf(n) # KeysOf(m)
                   /\ ~KeyTaken(m) => KeysOf(m) = {DiskKey(m)}
                   /\ KeyTaken(m) => KeysOf(m) # {DiskKey(m)}

\* A load of three files with the same key: the first has it, the others do not.
C8_Witness ==
    /\ Loaded
    /\ \E l, m, n \in Names :
           /\ Collide(l, m) /\ Collide(m, n)
           /\ KeysOf(l) = {DiskKey(l)}
           /\ Cardinality(KeysOf(l) \cup KeysOf(m) \cup KeysOf(n)) = 3

\* C9 (partial-failure tolerance): a load that has read the directory returns nil
\* whatever its files hold, and the snapshot has exactly one item for each file that
\* parses and nothing else.
C9_PartialFailure ==
    /\ [][pc[StartProc] = "body" => pc'[StartProc] \in {"body", "ret_ok"}]_vars
    /\ [](Loaded =>
            /\ Len(posts) = Cardinality(Parsed)
            /\ Cardinality(DOMAIN postMap) = Cardinality(Parsed)
            /\ \A i \in 1..Len(posts) : posts[i].FileName \in Parsed
            /\ \A k \in DOMAIN postMap : postMap[k].FileName \in Parsed
            /\ \A n \in Parsed : Cardinality(PlacesOf(n)) = 1 /\ Cardinality(KeysOf(n)) = 1)

\* A load returned nil over two files that parse, one that does not and one without
\* the extension.
C9_Witness ==
    /\ Loaded
    /\ Cardinality(Parsed) = 2
    /\ \E m, n \in Names : dir[m] = BadFile /\ dir[n] = OtherFile
    /\ Len(posts) = 2

\* The Created values of blog.posts are pairwise distinct.
DistinctCreated ==
    \A i, j \in 1..Len(posts) : i # j => posts[i].Created # posts[j].Created

\* C10 (ordering): after a load, no post of blog.posts is before its successor, and
\* each is strictly after it when all Created values are distinct.
C10_Ordering ==
    Loaded =>
        \A i \in 1..(Len(posts) - 1) :
            /\ posts[i].Created >= posts[i + 1].Created
            /\ DistinctCreated => posts[i].Created > posts[i + 1].Created

\* A load of three or more posts that the directory lists oldest first.
C10_Witness ==
    /\ Loaded
    /\ Len(posts) >= 3
    /\ posts[1].Created > posts[Len(posts)].Created
    /\ \E m, n \in Parsed : m < n /\ dir[m].Created < dir[n].Created

\* A load of two posts with distinct Created values, listed oldest first.
C10_WitnessDistinct ==
    /\ Loaded
    /\ Len(posts) = 2
    /\ DistinctCreated
    /\ \E m, n \in Parsed : m < n /\ dir[m].Created < dir[n].Created

(***************************************************************************)
(* The properties of reloads and of the handlers (ServeSpec, ReloadSpec).  *)
(***************************************************************************)
\* Some loadPosts has returned nil.
Succeeded == Loaded \/ \E g \in Gids : pc[g] = "done"

\* This step is the return of a loadPosts that has read the directory.
LoadReturns == \E p \in Procs : pc[p] = "body" /\ pc'[p] # "body"

\* C11 (idempotent reload): over a directory that does not change (ServeSpec), a
\* loadPosts that follows one that returned nil publishes the blog.posts that is
\* there already: the same items in the same order, whatever their Created values.
C11_IdempotentReload ==
    [][(Succeeded /\ LoadReturns) => posts' = posts]_vars

\* The files that have an item in a sequence of posts.
ItemFiles(ps) == {ps[i].FileName : i \in 1..Len(ps)}

\* C12 (full rebuild): when the load for the last Update has returned nil and nothing
\* is on its way, the snapshot is what a load of the directory builds from nothing:
\* blog.posts has exactly one item for each .json file that parses, none for a file
\* without the extension, and none for a file that is no longer there.
C12_FullRebuild ==
    \A g \in Gids :
        C4_LastLoaded(g) =>
            /\ postMap = LoadAll(dir)
            /\ SamePosts(posts, postMap)
            /\ ItemFiles(posts) = Parsed
            /\ \A n \in Names : dir[n].kind \in {"absent", "other"} => n \notin ItemFiles(posts)

\* The posts page once showed the posts of two files; the first file has been removed
\* since, and the load for the last Update has published the post of the second only.
C12_Witness ==
    /\ \E g \in Gids : C4_LastLoaded(g)
    /\ dir[1].kind = "absent"
    /\ ItemFiles(page.Posts) = {1, 2}
    /\ ItemFiles(posts) = {2}

\* The derived key of a title: lowercased, every space replaced by "-".
Slug(title) ==
    [i \in 1..Len(title) |->
        CASE title[i] = " " -> "-"
          [] title[i] = "A" -> "a"
          [] OTHER -> title[i]]

\* C13 (lookup by key): a lookup made while no loadPosts is in its body returns the
\* item of blog.posts whose derived key is the key asked for when there is one, and
\* nil (the redirect to /notfound) when there is none.
C13_LookupByKey ==
    [][(lookup' # lookup /\ ~InFlight) =>
          LET hits == {i \in 1..Len(posts) : Slug(posts[i].Title) = lookup'.key}
          IN  IF hits = {} THEN lookup'.post = Nil
              ELSE \A i \in hits : lookup'.post = posts[i]]_vars

\* Before any reload, the key "a-" was looked up and the post titled "A " returned.
C13_Witness ==
    /\ pc[StartProc] = "serving"
    /\ \A g \in Gids : pc[g] = "none"
    /\ lookup.key = <<"a", "-">>
    /\ lookup.post.Title = <<"A", " ">>

C15_NonBlockingReads ==
    (mutex /\ pc[StartProc] = "serving") =>
        /\ ENABLED (viewHomeHandler /\ UNCHANGED <<mutex, pc>>)
        /\ ENABLED (viewPostsHandler /\ UNCHANGED <<mutex, pc>>)
        /\ \A k \in ServeKeys : ENABLED (viewPostHandler(k) /\ UNCHANGED <<mutex, pc>>)

\* A loadPosts holds the mutex and a lookup has been answered from the map that
\* load was filling: nil for a key of the snapshot before and of the one being built.
C15_Witness ==
    /\ mutex
    /\ pc[StartProc] = "serving"
    /\ lookup.stable
    /\ lookup.post = Nil

\* The posts of a map.
ItemsOf(map) == {map[k] : k \in DOMAIN map}

\* C16 (item immutability): a post that is in blog.postMap stays as it is for as long
\* as its key is in the map, a post enters the map with its FileName set and under
\* the key of the title it will keep, and blog.posts changes only when a loadPosts
\* returns, to posts of the map as they are there.
C16_ItemImmutability ==
    [][/\ \A k \in DOMAIN postMap : k \in DOMAIN postMap' => postMap'[k] = postMap[k]
       /\ \A k \in DOMAIN postMap' \ DOMAIN postMap :
              /\ postMap'[k].FileName \in Names
              /\ Slug(postMap'[k].Title) = k
       /\ posts' # posts =>
              /\ LoadReturns
              /\ \A i \in 1..Len(posts') : posts'[i] \in ItemsOf(postMap)]_vars

\* The post of the second file was given the title "a-" before it entered the map;
\* it has been published, shown on the posts page, and a reload has gone by.
C16_Witness ==
    /\ ~InFlight
    /\ \E g \in Gids : pc[g] = "done"
    /\ dir[2].kind = "post" /\ dir[2].Title = <<"a">>
    /\ \E i \in 1..Len(posts) : posts[i].FileName = 2 /\ posts[i].Title = <<"a", "-">>
    /\ page.handler = "posts" /\ page.Posts = posts

\* Where Start may go from where it is: it calls loadPosts itself, is in its body
\* until it returns, serves after nil and ends after an error.
StartMoves ==
    {<<"new", "call">>, <<"call", "body">>, <<"call", "ret_err">>, <<"body", "ret_ok">>,
     <<"ret_ok", "serving">>, <<"ret_err", "failed">>}

\* C17 (startup load): Start can call loadPosts as soon as it is called, whatever
\* the watcher, the coordinator and the timers are doing; it moves only from the call
\* through the body of loadPosts to serving after nil or to its end after an error;
\* and no handler has answered a request unless Start is serving.
C17_StartupLoad ==
    /\ [](pc[StartProc] = "new" => ENABLED StartCall)
    /\ [][pc'[StartProc] # pc[StartProc] =>
              <<pc[StartProc], pc'[StartProc]>> \in StartMoves]_vars
    /\ []((page.handler # "none" \/ lookup.key # <<>>) => pc[StartProc] = "serving")

\* Start has loaded two posts and serves the home page though no notification was
\* ever raised and no timer goroutine spawned.
C17_Witness ==
    /\ pc[StartProc] = "serving"
    /\ notesLeft = MaxEvents /\ nWrites = 0 /\ nSpawn = 0
    /\ Len(posts) = 2
    /\ page.handler = "home"

\* C18 (two-state coordinator): at most one timer goroutine is in its select, waiting
\* for its timer or for exit.
C18_OnePending == Cardinality({g \in Gids : pc[g] = "waiting"}) <= 1

\* The notifications of a queue whose Op includes Write, and the Updates the
\* coordinator has received.
WritesIn(q) == Cardinality({i \in 1..Len(q) : "Write" \in q[i]})
Received == nSpawn + (IF cpc = "cancel" THEN 1 ELSE 0)

\* C19 (watcher translation): every notification raised with Write is waiting in
\* watcher.Events, is the Update the watcher is sending, or has been received by the
\* coordinator as one Update, and there are no other Updates; the watcher takes the
\* notifications in their order and sends an Update exactly for those with Write; an
\* Update the watcher sends is eventually received, and the coordinator always comes
\* back from cancelling and spawning to receive.
C19_WatcherTranslation ==
    /\ [](nWrites = WritesIn(fsq) + (IF wpc = "send" THEN 1 ELSE 0) + Received)
    /\ [][Len(fsq') < Len(fsq) =>
              /\ fsq' = Tail(fsq)
              /\ (wpc' = "send") <=> ("Write" \in Head(fsq))]_vars
    /\ (wpc = "send") ~> (wpc = "recv")
    /\ (cpc = "cancel") ~> (cpc = "recv")

\* Of the notifications raised, all taken by the watcher, one had no Write: the
\* coordinator has received one Update for each of the others and none for it.
C19_Witness ==
    /\ notesLeft = 0 /\ fsq = <<>> /\ wpc = "recv" /\ cpc = "recv"
    /\ nWrites = MaxEvents - 1
    /\ nSpawn = nWrites

\* C20 (snapshot consistency): when some loadPosts has returned nil and none is in
\* its body, blog.posts and blog.postMap hold the same posts, each once, as many in
\* the one as in the other, and every key of the map is the derived key of its post.
C20_SnapshotConsistency ==
    (~InFlight /\ Succeeded) =>
        /\ Len(posts) = Cardinality(DOMAIN postMap)
        /\ ItemFiles(posts) = {postMap[k].FileName : k \in DOMAIN postMap}
        /\ \A i \in 1..Len(posts) : posts[i] \in ItemsOf(postMap)
        /\ \A i, j \in 1..Len(posts) : i # j => posts[i] # posts[j]
        /\ \A k \in DOMAIN postMap : Slug(postMap[k].Title) = k

\* After a reload, two posts whose titles collided are in blog.posts and in
\* blog.postMap under the keys "a" and "a-".
C20_Witness ==
    /\ ~InFlight
    /\ \E g \in Gids : pc[g] = "done"
    /\ Len(posts) = 2
    /\ DOMAIN postMap = {<<"a">>, <<"a", "-">>}

(***************************************************************************)
(* The titles a load alters (TitleSpec).                                   *)
(***************************************************************************)
\* The item of file n has the title and the key of the file as on disk.
Unaltered(n) ==
    /\ KeysOf(n) = {DiskKey(n)}
    /\ \A k \in KeysOf(n) : postMap[k].Title = dir[n].Title

\* Another file, or a file processed before n, has a title on disk that normalizes
\* to the key of n's title.
SharedWithEarlier(n) == \E e \in Parsed : e < n /\ DiskKey(e) = DiskKey(n)
SharedWithAny(n) == \E e \in Parsed : e # n /\ DiskKey(e) = DiskKey(n)

\* The title with c markers appended.
RECURSIVE Marked(_, _)
Marked(title, c) == IF c = 0 THEN title ELSE Append(Marked(title, c - 1), "-")

\* C21 as stated (minimal title mutation): after a load, the item of a file has an
\* altered title only if a file processed before it has a title on disk that
\* normalizes to the same key, and the item of a file that shares the key of its
\* title on disk with no other file has its title and key unchanged.
C21_AlteredOnlyIfShared ==
    Loaded =>
        \A n \in Parsed :
            /\ ~Unaltered(n) => SharedWithEarlier(n)
            /\ ~SharedWithAny(n) => Unaltered(n)

\* C21 as amended: the item of a file has an altered title exactly when the item of
\* a file processed before it holds the key of its title on disk, whether from its
\* own title or after alteration; the altered title is the title on disk followed
\* by markers only, as few as reach a key that no earlier item holds.
C21_AlteredOnlyIfTaken ==
    Loaded =>
        \A n \in Parsed :
            /\ ~Unaltered(n) <=> KeyTaken(n)
            /\ \A k \in KeysOf(n) :
                   LET c == Len(postMap[k].Title) - Len(dir[n].Title)
                   IN  /\ c >= 0
                       /\ postMap[k].Title = Marked(dir[n].Title, c)
                       /\ \A b \in 0..(c - 1) :
                              LET kb == SafeTitle([Title |-> Marked(dir[n].Title, b)])
                              IN  kb \in DOMAIN postMap /\ postMap[kb].FileName < n

\* A load where the second of two files titled a takes the key a-, and a later
\* file, the only one titled a- on disk, has its title altered to a--.
C21_Witness ==
    /\ Loaded
    /\ \E l, m, n \in Parsed :
           /\ l < m /\ m < n
           /\ dir[l].Title = <<"a">> /\ dir[m].Title = <<"a">>
           /\ dir[n].Title = <<"a", "-">>
           /\ ~SharedWithAny(n)
           /\ Unaltered(l)
           /\ KeysOf(m) = {<<"a", "-">>}
           /\ KeysOf(n) = {<<"a", "-", "-">>}
           /\ \A k \in KeysOf(n) : postMap[k].Title = <<"a", "-", "-">>

====
